---------------------------- MODULE Spec2Model ----------------------------
(***************************************************************************)
(* A model of scripts/generate-contrib-svg.mjs: the script that fetches a  *)
(* GitHub contribution calendar and renders it as an SVG heat map.  The    *)
(* repository holds two variants of the script (a 5-colour one with a      *)
(* header, tooltips "N contributions on Month Dth" and a legend, and a     *)
(* 4-colour one with tooltips "date: N contributions"); `variant` says     *)
(* which one runs.                                                         *)
(*                                                                         *)
(* JavaScript strings are sequences of one-character strings.  A value     *)
(* that may be undefined/null is a sequence of length 0 (absent) or 1.     *)
(***************************************************************************)
EXTENDS Integers, Sequences, FiniteSets, TLC

VARIABLES
    variant,      \* 1: the script of lines 1-211, 2: the script of lines 213-379
    pc,           \* position of the run
    token,        \* process.env.GH_TOKEN: absent (<<>>) or <<string>>
    fetchCount,   \* number of fetch() calls issued so far
    response,     \* the HTTP exchange's outcome, once fetch() has been called
    calendar,     \* the contributionCalendar object handed to renderSVG
    paddedWeeks,  \* renderSVG's local paddedWeeks after normalisation
    svg,          \* what renderSVG returned (or that it threw)
    fileWrites,   \* sequence of contents written to assets/contributions.svg
    exitCode,     \* absent (<<>>) while running, <<code>> once the process ended
    logged,       \* what went to the console: "error" / "wrote"
    c1, c2,       \* two contribution counts (levelFromCount's inputs)
    l1, l2,       \* their levels
    mm, dd,       \* the month and day an API date stands for (0: arbitrary string)
    dateStr,      \* a day's date string
    count,        \* a day's contributionCount
    total,        \* calendar.totalContributions: <<>> or <<n>>
    title,        \* the tooltip text before escaping
    emitted,      \* the tooltip text as emitted inside <title>
    summary       \* the summary text as emitted inside <text> (variant 1)

vars == <<variant, pc, token, fetchCount, response, calendar, paddedWeeks, svg,
          fileWrites, exitCode, logged, c1, c2, l1, l2, mm, dd, dateStr, count,
          total, title, emitted, summary>>

-----------------------------------------------------------------------------
(* Bounds of the model *)

MaxCount == 12        \* contribution counts 0..MaxCount
MaxTotal == 3         \* totalContributions 0..MaxTotal
MaxDay == 31          \* days of the month 1..MaxDay
MaxStrLen == 4        \* length of an arbitrary (unvalidated) date string
MaxInputWeeks == 200  \* length of calendar.weeks in the normalisation runs
MaxSlack == 1         \* week-list lengths 0..MaxSlack and WEEKS-MaxSlack..WEEKS+MaxSlack

-----------------------------------------------------------------------------
(* Optional values *)

None == <<>>
Some(x) == <<x>>
IsSome(m) == Len(m) = 1
\* a ?? b
OrElse(m, dflt) == IF Len(m) = 1 THEN m[1] ELSE dflt

-----------------------------------------------------------------------------
(* Program constants *)

PALETTE == (0 :> "#97BAA9") @@ (1 :> "#ABCCA3") @@ (2 :> "#C8D9AA") @@
           (3 :> "#F3DEB4") @@ (4 :> "#FBD2C6")
PALETTE_v2 == (0 :> "#EFCAD1") @@ (1 :> "#E9B8C1") @@ (2 :> "#C0D9BA") @@
              (3 :> "#ABCCA3")

CELL == 11
GAP == 2
WEEKS == 53
DAYS == 7
PAD_X == 10
PAD_Y == 10
HEADER_HEIGHT == 24
LEGEND_HEIGHT == 28

MONTHS == <<
       <<"J", "a", "n", "u", "a", "r", "y">>,
       <<"F", "e", "b", "r", "u", "a", "r", "y">>,
       <<"M", "a", "r", "c", "h">>,
       <<"A", "p", "r", "i", "l">>,
       <<"M", "a", "y">>,
       <<"J", "u", "n", "e">>,
       <<"J", "u", "l", "y">>,
       <<"A", "u", "g", "u", "s", "t">>,
       <<"S", "e", "p", "t", "e", "m", "b", "e", "r">>,
       <<"O", "c", "t", "o", "b", "e", "r">>,
       <<"N", "o", "v", "e", "m", "b", "e", "r">>,
       <<"D", "e", "c", "e", "m", "b", "e", "r">> >>

PaletteOf(v) == IF v = 1 THEN PALETTE ELSE PALETTE_v2
\* PALETTE.length
PaletteLength(v) == Cardinality(DOMAIN PaletteOf(v))

-----------------------------------------------------------------------------
(* levelFromCount *)

levelFromCount_skew(cnt) ==
    IF cnt = 0 THEN 0
    ELSE IF cnt <= 2 THEN 1
    ELSE IF cnt <= 5 THEN 3
    ELSE IF cnt <= 9 THEN 2
    ELSE 5

levelFromCount(cnt) ==
    IF cnt = 0 THEN 0
    ELSE IF cnt <= 2 THEN 1
    ELSE IF cnt <= 5 THEN 2
    ELSE IF cnt <= 9 THEN 3
    ELSE 4

levelFromCount_v2_gap(cnt) ==
    IF cnt = 0 THEN 0
    ELSE IF cnt <= 2 THEN 1
    ELSE IF cnt <= 6 THEN 3
    ELSE 1

levelFromCount_v2(cnt) ==
    IF cnt = 0 THEN 0
    ELSE IF cnt <= 2 THEN 1
    ELSE IF cnt <= 6 THEN 2
    ELSE 3

LevelOf(v, cnt) == IF v = 1 THEN levelFromCount(cnt) ELSE levelFromCount_v2(cnt)

-----------------------------------------------------------------------------
(* Strings *)

DigitChars == <<"0", "1", "2", "3", "4", "5", "6", "7", "8", "9">>
DigitSet == {DigitChars[i] : i \in 1..10}
DigitValue(ch) == (CHOOSE i \in 1..10 : DigitChars[i] = ch) - 1

\* Number() yields NaN for a non-numeric string and a destructured array slot
\* past the end is undefined.  Every number the script handles is >= 0, so two
\* negative integers stand for these two values.
NaN == 0 - 1
Undefined == 0 - 2

RECURSIVE DecimalDigits(_)
DecimalDigits(n) ==
    IF n < 10 THEN <<DigitChars[n + 1]>>
    ELSE DecimalDigits(n \div 10) \o <<DigitChars[(n % 10) + 1]>>

\* String(n) / `${n}` for a non-negative integer, NaN or undefined
String(n) ==
    IF n = NaN THEN <<"N", "a", "N">>
    ELSE IF n = Undefined THEN <<"u", "n", "d", "e", "f", "i", "n", "e", "d">>
    ELSE DecimalDigits(n)

\* s.endsWith(suffix)
EndsWith(s, suffix) ==
    /\ Len(suffix) <= Len(s)
    /\ SubSeq(s, Len(s) - Len(suffix) + 1, Len(s)) = suffix

\* s.replaceAll(ch, rep) for a one-character pattern
RECURSIVE ReplaceAll(_, _, _)
ReplaceAll(s, ch, rep) ==
    IF s = <<>> THEN <<>>
    ELSE (IF Head(s) = ch THEN rep ELSE <<Head(s)>>) \o ReplaceAll(Tail(s), ch, rep)

\* s.split("-")
RECURSIVE Split(_)
Split(s) ==
    IF s = <<>> THEN << <<>> >>
    ELSE LET rest == Split(Tail(s))
         IN  IF Head(s) = "-" THEN << <<>> >> \o rest
             ELSE << <<Head(s)>> \o Head(rest) >> \o Tail(rest)

RECURSIVE DigitsValue(_, _)
DigitsValue(s, acc) ==
    IF s = <<>> THEN acc ELSE DigitsValue(Tail(s), 10 * acc + DigitValue(Head(s)))

\* Number(s) for a string of the model's alphabet (no whitespace, sign, dot
\* or exponent characters): "" is 0, a run of digits its value, the rest NaN
Number(s) ==
    IF \A i \in 1..Len(s) : s[i] \in DigitSet THEN DigitsValue(s, 0) ELSE NaN

-----------------------------------------------------------------------------
(* svgEscape *)

svgEscape_ampLast(s) ==
    ReplaceAll(
      ReplaceAll(
        ReplaceAll(
          ReplaceAll(s, "<", <<"&", "l", "t", ";">>),
          ">", <<"&", "g", "t", ";">>),
        "\"", <<"&", "q", "u", "o", "t", ";">>),
      "&", <<"&", "a", "m", "p", ";">>)

svgEscape(s) ==
    ReplaceAll(
      ReplaceAll(
        ReplaceAll(
          ReplaceAll(s, "&", <<"&", "a", "m", "p", ";">>),
          "<", <<"&", "l", "t", ";">>),
        ">", <<"&", "g", "t", ";">>),
      "\"", <<"&", "q", "u", "o", "t", ";">>)

-----------------------------------------------------------------------------
(* ordinal, formatTooltipDate and the texts renderSVG builds *)

ordinal_noTeens(n) ==
    LET s == String(n)
    IN  IF EndsWith(s, <<"1">>) THEN s \o <<"s", "t">>
        ELSE IF EndsWith(s, <<"2">>) THEN s \o <<"n", "d">>
        ELSE IF EndsWith(s, <<"3">>) THEN s \o <<"r", "d">>
        ELSE s \o <<"t", "h">>

ordinal(n) ==
    LET s == String(n)
    IN  IF EndsWith(s, <<"1", "1">>) \/ EndsWith(s, <<"1", "2">>)
           \/ EndsWith(s, <<"1", "3">>) THEN s \o <<"t", "h">>
        ELSE IF EndsWith(s, <<"1">>) THEN s \o <<"s", "t">>
        ELSE IF EndsWith(s, <<"2">>) THEN s \o <<"n", "d">>
        ELSE IF EndsWith(s, <<"3">>) THEN s \o <<"r", "d">>
        ELSE s \o <<"t", "h">>

\* MONTHS[m - 1] inside a template literal
MonthText(m) ==
    IF m \in 1..12 THEN MONTHS[m] ELSE <<"u", "n", "d", "e", "f", "i", "n", "e", "d">>

formatTooltipDate_pluralOne(date, cnt) ==
    IF date = <<>> THEN <<>>
    ELSE LET strs == Split(date)
             parts == [i \in DOMAIN strs |-> Number(strs[i])]
             m == IF Len(parts) >= 2 THEN parts[2] ELSE Undefined
             d == IF Len(parts) >= 3 THEN parts[3] ELSE Undefined
         IN  String(cnt) \o <<" ", "c", "o", "n", "t", "r", "i", "b", "u", "t", "i", "o", "n">>
             \o (IF cnt <= 1 THEN <<>> ELSE <<"s">>)
             \o <<" ", "o", "n", " ">> \o MonthText(m) \o <<" ">> \o ordinal(d)

formatTooltipDate(date, cnt) ==
    IF date = <<>> THEN <<>>
    ELSE LET strs == Split(date)
             parts == [i \in DOMAIN strs |-> Number(strs[i])]
             m == IF Len(parts) >= 2 THEN parts[2] ELSE Undefined
             d == IF Len(parts) >= 3 THEN parts[3] ELSE Undefined
         IN  String(cnt) \o <<" ", "c", "o", "n", "t", "r", "i", "b", "u", "t", "i", "o", "n">>
             \o (IF cnt = 1 THEN <<>> ELSE <<"s">>)
             \o <<" ", "o", "n", " ">> \o MonthText(m) \o <<" ">> \o ordinal(d)

\* the 4-colour script's tooltip
title_v2(date, cnt) ==
    IF date = <<>> THEN <<>>
    ELSE date \o <<":", " ">> \o String(cnt)
         \o <<" ", "c", "o", "n", "t", "r", "i", "b", "u", "t", "i", "o", "n">>
         \o (IF cnt = 1 THEN <<>> ELSE <<"s">>)

\* const title = ... of either script
CellTitle(v, date, cnt) ==
    IF v = 1
    THEN (IF date = <<>> THEN <<>> ELSE formatTooltipDate(date, cnt))
    ELSE title_v2(date, cnt)

\* totalContributions and summaryText of the 5-colour script
summaryText(tot) ==
    LET totalContributions == OrElse(tot, 0)
    IN  String(totalContributions)
        \o <<" ", "c", "o", "n", "t", "r", "i", "b", "u", "t", "i", "o", "n">>
        \o (IF totalContributions = 1 THEN <<>> ELSE <<"s">>)
        \o <<" ", "i", "n", " ", "t", "h", "e", " ", "l", "a", "s", "t", " ", "y", "e", "a", "r">>

\* ${title ? `<title>${svgEscape(title)}</title>` : ""}: the text inside the
\* <title> element, absent when the cell has no tooltip
TitleElement(v, date, cnt) ==
    LET ttl == CellTitle(v, date, cnt)
    IN  IF ttl # <<>> THEN Some(svgEscape(ttl)) ELSE None

\* the text inside the summary <text> element; the 4-colour script has none
SummaryElement(v, tot) ==
    IF v = 1 THEN Some(svgEscape(summaryText(tot))) ELSE None

-----------------------------------------------------------------------------
(* renderSVG *)

\* { contributionDays: [] }
EmptyWeek == Some([contributionDays |-> Some(<<>>)])

RECURSIVE UnshiftWhileShort(_)
\* while (paddedWeeks.length < WEEKS) paddedWeeks.unshift({ contributionDays: [] })
UnshiftWhileShort(ws) ==
    IF Len(ws) < WEEKS THEN UnshiftWhileShort(<<EmptyWeek>> \o ws) ELSE ws

\* if (paddedWeeks.length > WEEKS) paddedWeeks.splice(0, paddedWeeks.length - WEEKS)
SpliceFront(ws) ==
    IF Len(ws) > WEEKS THEN SubSeq(ws, Len(ws) - WEEKS + 1, Len(ws)) ELSE ws

PaddedWeeks_keepFirst(weeks) ==
    LET ws == UnshiftWhileShort(weeks)
    IN  IF Len(ws) > WEEKS THEN SubSeq(ws, 1, WEEKS) ELSE ws

\* paddedWeeks of renderSVG: a copy of weeks, padded and cut at the front
PaddedWeeks(weeks) == SpliceFront(UnshiftWhileShort(weeks))

\* A Map is the sequence of its <<key, value>> entries in insertion order.
MapHas(m, k) == \E i \in 1..Len(m) : m[i][1] = k
MapSet(m, k, v) ==
    IF MapHas(m, k)
    THEN [m EXCEPT ![CHOOSE i \in 1..Len(m) : m[i][1] = k] = <<k, v>>]
    ELSE Append(m, <<k, v>>)
MapGet(m, k) ==
    IF MapHas(m, k) THEN Some(m[CHOOSE i \in 1..Len(m) : m[i][1] = k][2]) ELSE None

RECURSIVE SetAll(_, _)
SetAll(m, days) ==
    IF days = <<>> THEN m
    ELSE SetAll(MapSet(m, Head(days).weekday, Head(days)), Tail(days))

byWeekday_firstWins(days) ==
    LET RECURSIVE Keep(_, _)
        Keep(m, ds) ==
            IF ds = <<>> THEN m
            ELSE Keep(IF MapHas(m, Head(ds).weekday) THEN m
                      ELSE Append(m, <<Head(ds).weekday, Head(ds)>>), Tail(ds))
    IN  Keep(<<>>, days)

\* const byWeekday = new Map(); for (const d of days) byWeekday.set(d.weekday, d)
byWeekday(days) == SetAll(<<>>, days)

\* PALETTE[level] inside a template literal
Fill(v, level) ==
    IF level \in DOMAIN PaletteOf(v) THEN PaletteOf(v)[level] ELSE "undefined"

\* HEADER_HEIGHT + PAD_Y in the 5-colour script, PAD_Y in the other
gridOffsetY(v) == IF v = 1 THEN HEADER_HEIGHT + PAD_Y ELSE PAD_Y

Cell_rowMajor(v, week, x, y) ==
    LET days == OrElse(week.contributionDays, <<>>)
        day == MapGet(byWeekday(days), y)
        cnt == IF IsSome(day) THEN day[1].contributionCount ELSE 0
        date == IF IsSome(day) THEN day[1].date ELSE <<>>
    IN  [x |-> PAD_X + y * (CELL + GAP),
         y |-> gridOffsetY(v) + x * (CELL + GAP),
         width |-> CELL, height |-> CELL, rx |-> 2, ry |-> 2,
         fill |-> Fill(v, LevelOf(v, cnt)),
         title |-> TitleElement(v, date, cnt)]

\* the body of the inner loop: the <rect> of column x, row y
Cell(v, week, x, y) ==
    LET days == OrElse(week.contributionDays, <<>>)
        day == MapGet(byWeekday(days), y)
        cnt == IF IsSome(day) THEN day[1].contributionCount ELSE 0
        date == IF IsSome(day) THEN day[1].date ELSE <<>>
    IN  [x |-> PAD_X + x * (CELL + GAP),
         y |-> gridOffsetY(v) + y * (CELL + GAP),
         width |-> CELL, height |-> CELL, rx |-> 2, ry |-> 2,
         fill |-> Fill(v, LevelOf(v, cnt)),
         title |-> TitleElement(v, date, cnt)]

\* the two nested loops: rects in emission order (x outer, y inner)
Rects(v, weeks) ==
    LET padded == PaddedWeeks(weeks)
    IN  [k \in 1..(WEEKS * DAYS) |->
            Cell(v, padded[((k - 1) \div DAYS) + 1][1], (k - 1) \div DAYS, (k - 1) % DAYS)]

gridWidth == PAD_X * 2 + WEEKS * CELL + (WEEKS - 1) * GAP
gridHeight == PAD_Y * 2 + DAYS * CELL + (DAYS - 1) * GAP
Width(v) == gridWidth
Height(v) == IF v = 1 THEN HEADER_HEIGHT + gridHeight + LEGEND_HEIGHT ELSE gridHeight

\* the legend swatches of the 5-colour script
legendSwatches ==
    LET legendY == Height(1) - 14
        legendSwatchSize == 10
        legendGap == 2
        legendStartX == Width(1) - 120
    IN  [i \in 1..PaletteLength(1) |->
            [x |-> legendStartX + (i - 1) * (legendSwatchSize + legendGap),
             y |-> legendY - legendSwatchSize + 2,
             width |-> legendSwatchSize, height |-> legendSwatchSize,
             fill |-> PALETTE[i - 1]]]

Threw == [threw |-> TRUE, width |-> 0, height |-> 0, summary |-> None,
          rects |-> <<>>, legend |-> <<>>]

\* calendar.weeks on an undefined calendar, [...weeks] on undefined weeks and
\* week.contributionDays on a null week (among the weeks kept) are TypeErrors
RenderThrows(cal) ==
    \/ ~IsSome(cal)
    \/ ~IsSome(cal[1].weeks)
    \/ LET padded == PaddedWeeks(cal[1].weeks[1])
       IN  \E i \in 1..WEEKS : ~IsSome(padded[i])

renderSVG(v, cal) ==
    IF RenderThrows(cal) THEN Threw
    ELSE [threw |-> FALSE,
          width |-> Width(v),
          height |-> Height(v),
          summary |-> SummaryElement(v, cal[1].totalContributions),
          rects |-> Rects(v, cal[1].weeks[1]),
          legend |-> IF v = 1 THEN legendSwatches ELSE <<>>]

-----------------------------------------------------------------------------
(* fetchCalendar *)

\* What fetchCalendar does with the outcome r of the HTTP exchange:
\* [rejected: fetch() failed, ok: res.ok, parses: res.json() succeeds, json].
\* The result is [threw, value], value being the (possibly undefined) calendar.
fetchCalendar_ignoreErrors(r) ==
    IF r.rejected \/ ~r.ok \/ ~r.parses THEN [threw |-> TRUE, value |-> None]
    ELSE IF ~IsSome(r.json.data) THEN [threw |-> TRUE, value |-> None]
    ELSE IF ~IsSome(r.json.data[1].user) THEN [threw |-> TRUE, value |-> None]
    ELSE IF ~IsSome(r.json.data[1].user[1].contributionsCollection)
         THEN [threw |-> TRUE, value |-> None]
    ELSE [threw |-> FALSE,
          value |-> r.json.data[1].user[1].contributionsCollection[1].contributionCalendar]

fetchCalendar(r) ==
    IF r.rejected THEN [threw |-> TRUE, value |-> None]
    ELSE IF ~r.ok THEN [threw |-> TRUE, value |-> None]
    ELSE IF ~r.parses THEN [threw |-> TRUE, value |-> None]
    ELSE IF IsSome(r.json.errors) /\ Len(r.json.errors[1]) > 0
         THEN [threw |-> TRUE, value |-> None]
    ELSE IF ~IsSome(r.json.data) THEN [threw |-> TRUE, value |-> None]
    ELSE IF ~IsSome(r.json.data[1].user) THEN [threw |-> TRUE, value |-> None]
    ELSE IF ~IsSome(r.json.data[1].user[1].contributionsCollection)
         THEN [threw |-> TRUE, value |-> None]
    ELSE [threw |-> FALSE,
          value |-> r.json.data[1].user[1].contributionsCollection[1].contributionCalendar]

-----------------------------------------------------------------------------
(* Inputs *)

Pad2(n) == IF n < 10 THEN <<"0">> \o String(n) ELSE String(n)
\* the API's date of month m, day d: "2024-mm-dd"
ISODate(m, d) == <<"2", "0", "2", "4", "-">> \o Pad2(m) \o <<"-">> \o Pad2(d)

Day(date, cnt, wd) == [date |-> date, contributionCount |-> cnt, weekday |-> wd]
Week(days) == Some([contributionDays |-> Some(days)])

\* the i-th week of a regular calendar: one day, told apart by its count
FillerWeek(i) == Week(<<Day(ISODate((i % 12) + 1, (i % 28) + 1), i, i % DAYS)>>)
RegularWeeks == [i \in 1..(MaxInputWeeks + 1) |-> FillerWeek(i)]
FillerWeeks(n) == SubSeq(RegularWeeks, 1, n)

\* strings over alphabet A of length at most n
StringsUpTo(A, n) == UNION {[1..k -> A] : k \in 0..n}

\* day records of an irregular week: weekday at and just outside the ends of
\* 0..6, date possibly empty
OddDays ==
    {Day(dt, cnt, wd) : dt \in {<<>>, ISODate(3, 5)}, cnt \in {0, MaxCount},
                        wd \in {0 - 1, 0, DAYS - 1, DAYS}}
OddWeeks == {Week(ds) : ds \in StringsUpTo(OddDays, 2)}

RenderLengths == (0..MaxSlack) \cup ((WEEKS - MaxSlack)..(WEEKS + MaxSlack))

Calendar(tot, weeks) == Some([totalContributions |-> tot, weeks |-> Some(weeks)])

\* a regular calendar of n weeks
RegularCalendar(n) == Calendar(Some(n % (MaxTotal + 1)), FillerWeeks(n))

\* a calendar of n weeks whose p-th week is w
OddCalendar(n, p, w) == Calendar(None, [FillerWeeks(n) EXCEPT ![p] = w])

\* what the API may answer
MainWeekLists ==
    { None, Some(<<>>), Some(<<FillerWeek(1)>>),
      Some(<<Some([contributionDays |-> None])>>),
      Some(<<None>>),
      Some(<<None>> \o FillerWeeks(WEEKS)) }
MainCalendars ==
    {[totalContributions |-> t, weeks |-> w] : t \in {None, Some(1)}, w \in MainWeekLists}
DataShapes ==
    { None,
      Some([user |-> None]),
      Some([user |-> Some([contributionsCollection |-> None])]),
      Some([user |-> Some([contributionsCollection |->
                Some([contributionCalendar |-> None])])]) }
    \cup
    { Some([user |-> Some([contributionsCollection |->
                Some([contributionCalendar |-> Some(cal)])])]) : cal \in MainCalendars }
Jsons ==
    {[errors |-> e, data |-> d] :
        e \in {None, Some(<<>>), Some(<<"NOT_FOUND">>)}, d \in DataShapes}
NoJson == [errors |-> None, data |-> None]
Responses ==
    { [rejected |-> TRUE, ok |-> FALSE, parses |-> FALSE, json |-> NoJson],
      [rejected |-> FALSE, ok |-> FALSE, parses |-> TRUE, json |-> NoJson],
      [rejected |-> FALSE, ok |-> TRUE, parses |-> FALSE, json |-> NoJson] }
    \cup
    {[rejected |-> FALSE, ok |-> TRUE, parses |-> TRUE, json |-> j] : j \in Jsons}

Tokens == {None, Some(<<>>), Some(<<"g", "h", "p">>)}

\* characters of an unvalidated date string
DirtyChars == {"&", "<", ">", "\"", "-", "1", "a"}

-----------------------------------------------------------------------------
(* Initial states *)

MainIdle ==
    /\ token = None /\ fetchCount = 0 /\ response = None
    /\ fileWrites = <<>> /\ exitCode = None /\ logged = <<>>
RenderIdle == calendar = None /\ paddedWeeks = <<>> /\ svg = None
LevelIdle == c1 = 0 /\ c2 = 0 /\ l1 = None /\ l2 = None
TextIdle ==
    /\ mm = 0 /\ dd = 0 /\ dateStr = <<>> /\ count = 0 /\ total = None
    /\ title = <<>> /\ emitted = None /\ summary = None

\* the script is started
Init ==
    /\ variant \in 1..2
    /\ pc = "start"
    /\ token \in Tokens
    /\ fetchCount = 0 /\ response = None
    /\ fileWrites = <<>> /\ exitCode = None /\ logged = <<>>
    /\ RenderIdle /\ LevelIdle /\ TextIdle

\* renderSVG is called with a calendar
InitRender ==
    /\ variant \in 1..2
    /\ pc = "render"
    /\ \/ \E n \in 0..MaxInputWeeks : calendar = RegularCalendar(n)
       \/ \E n \in RenderLengths \ {0} : \E p \in {1, n} : \E w \in OddWeeks :
             calendar = OddCalendar(n, p, w)
    /\ paddedWeeks = <<>> /\ svg = None
    /\ MainIdle /\ LevelIdle /\ TextIdle

\* renderSVG is called with a regular calendar
InitGrid ==
    /\ variant \in 1..2
    /\ pc = "render"
    /\ \E n \in 0..MaxInputWeeks : calendar = RegularCalendar(n)
    /\ paddedWeeks = <<>> /\ svg = None
    /\ MainIdle /\ LevelIdle /\ TextIdle

\* levelFromCount is applied to two counts
InitLevel ==
    /\ variant \in 1..2
    /\ pc = "levels"
    /\ c1 \in 0..MaxCount /\ c2 \in 0..MaxCount
    /\ l1 = None /\ l2 = None
    /\ MainIdle /\ RenderIdle /\ TextIdle

\* the texts of one day and of the summary are built: the day's date is either
\* a date of the API or an arbitrary short string
InitText ==
    /\ variant \in 1..2
    /\ pc = "text"
    /\ \/ /\ mm \in 1..12 /\ dd \in 1..MaxDay
          /\ dateStr = ISODate(mm, dd)
          /\ count \in 0..MaxCount
          /\ total \in {None} \cup {Some(n) : n \in 0..MaxTotal}
       \/ /\ mm = 0 /\ dd = 0
          /\ dateStr \in StringsUpTo(DirtyChars, MaxStrLen)
          /\ count \in 0..MaxTotal
          /\ total = None
    /\ title = <<>> /\ emitted = None /\ summary = None
    /\ MainIdle /\ RenderIdle /\ LevelIdle

-----------------------------------------------------------------------------
(* Actions *)

mainVars == <<token, fetchCount, response, fileWrites, exitCode, logged>>
levelVars == <<c1, c2, l1, l2>>
textVars == <<mm, dd, dateStr, count, total, title, emitted, summary>>

MainStart_onlyUndefined ==
    /\ pc = "start"
    /\ pc' = IF ~IsSome(token) THEN "catch" ELSE "callFetch"
    /\ UNCHANGED <<variant, mainVars, calendar, paddedWeeks, svg, levelVars, textVars>>

\* main: const token = process.env.GH_TOKEN; if (!token) throw ...
MainStart ==
    /\ pc = "start"
    /\ pc' = IF ~IsSome(token) \/ token[1] = <<>> THEN "catch" ELSE "callFetch"
    /\ UNCHANGED <<variant, mainVars, calendar, paddedWeeks, svg, levelVars, textVars>>

\* fetchCalendar(token): the request is sent
FetchCall ==
    /\ pc = "callFetch"
    /\ fetchCount' = fetchCount + 1
    /\ pc' = "awaitFetch"
    /\ UNCHANGED <<variant, token, response, fileWrites, exitCode, logged,
                   calendar, paddedWeeks, svg, levelVars, textVars>>

\* the exchange ends and the rest of fetchCalendar runs
FetchSettle ==
    /\ pc = "awaitFetch"
    /\ \E r \in Responses :
         /\ response' = Some(r)
         /\ IF fetchCalendar(r).threw
            THEN pc' = "catch" /\ UNCHANGED calendar
            ELSE pc' = "render" /\ calendar' = fetchCalendar(r).value
    /\ UNCHANGED <<variant, token, fetchCount, fileWrites, exitCode, logged,
                   paddedWeeks, svg, levelVars, textVars>>

\* const svg = renderSVG(calendar)
Render ==
    /\ pc = "render"
    /\ LET out == renderSVG(variant, calendar)
       IN  /\ svg' = Some(out)
           /\ pc' = IF out.threw THEN "catch" ELSE "write"
    /\ paddedWeeks' = IF IsSome(calendar) /\ IsSome(calendar[1].weeks)
                      THEN PaddedWeeks(calendar[1].weeks[1]) ELSE <<>>
    /\ UNCHANGED <<variant, mainVars, calendar, levelVars, textVars>>

\* fs.mkdirSync, fs.writeFileSync (either may throw), console.log
WriteFile ==
    /\ pc = "write"
    /\ \E ioOk \in BOOLEAN :
         IF ioOk
         THEN /\ fileWrites' = Append(fileWrites, svg[1])
              /\ logged' = Append(logged, "wrote")
              /\ pc' = "resolved"
         ELSE /\ pc' = "catch"
              /\ UNCHANGED <<fileWrites, logged>>
    /\ UNCHANGED <<variant, token, fetchCount, response, exitCode,
                   calendar, paddedWeeks, svg, levelVars, textVars>>

\* main() resolved and nothing is pending: the process ends with code 0
ExitOk ==
    /\ pc = "resolved"
    /\ exitCode' = Some(0)
    /\ pc' = "exited"
    /\ UNCHANGED <<variant, token, fetchCount, response, fileWrites, logged,
                   calendar, paddedWeeks, svg, levelVars, textVars>>

\* main().catch: console.error(err); process.exit(1)
CatchExit ==
    /\ pc = "catch"
    /\ logged' = Append(logged, "error")
    /\ exitCode' = Some(1)
    /\ pc' = "exited"
    /\ UNCHANGED <<variant, token, fetchCount, response, fileWrites,
                   calendar, paddedWeeks, svg, levelVars, textVars>>

\* const level = levelFromCount(count), for the two counts
Quantize ==
    /\ pc = "levels"
    /\ l1' = Some(LevelOf(variant, c1))
    /\ l2' = Some(LevelOf(variant, c2))
    /\ pc' = "levelsDone"
    /\ UNCHANGED <<variant, mainVars, calendar, paddedWeeks, svg, c1, c2, textVars>>

\* the tooltip of one day and the summary line, as renderSVG emits them
FormatText ==
    /\ pc = "text"
    /\ title' = CellTitle(variant, dateStr, count)
    /\ emitted' = TitleElement(variant, dateStr, count)
    /\ summary' = SummaryElement(variant, total)
    /\ pc' = "textDone"
    /\ UNCHANGED <<variant, mainVars, calendar, paddedWeeks, svg, levelVars,
                   mm, dd, dateStr, count, total>>

Next == MainStart \/ FetchCall \/ FetchSettle \/ Render \/ WriteFile \/ ExitOk \/ CatchExit

Spec == Init /\ [][Next]_vars
SpecRender == InitRender /\ [][Render]_vars
SpecGrid == InitGrid /\ [][Render]_vars
SpecLevel == InitLevel /\ [][Quantize]_vars
SpecText == InitText /\ [][FormatText]_vars

-----------------------------------------------------------------------------
(* Properties of levelFromCount, checked under SpecLevel *)

Levels(v) == 0..(PaletteLength(v) - 1)

\* C2: for counts c1 <= c2 the level of c1 is at most the level of c2, and
\* every level lies in 0..PALETTE.length-1, so PALETTE[level] is a colour;
\* in both scripts.
C2_LevelMonotoneBounded ==
    pc = "levelsDone" =>
        /\ c1 <= c2 => l1[1] <= l2[1]
        /\ l1[1] \in Levels(variant) /\ l2[1] \in Levels(variant)
        /\ l1[1] \in DOMAIN PaletteOf(variant)
        /\ Fill(variant, l1[1]) # "undefined"

C2_Witness ==
    /\ pc = "levelsDone" /\ variant = 2
    /\ c1 < c2 /\ l1[1] < l2[1] /\ l2[1] = PaletteLength(2) - 1

\* C3: levelFromCount cuts the counts into PALETTE.length contiguous non-empty
\* ranges: level 0 exactly for count 0, every level is the level of some
\* count, and the counts between two counts of equal level have that level.
C3_LevelPartition ==
    pc = "levelsDone" =>
        /\ l1[1] = 0 <=> c1 = 0
        /\ \A l \in Levels(variant) : \E c \in 0..MaxCount : LevelOf(variant, c) = l
        /\ (c1 <= c2 /\ l1[1] = l2[1]) =>
               \A c \in c1..c2 : LevelOf(variant, c) = l1[1]

C3_Witness ==
    /\ pc = "levelsDone" /\ c1 + 1 < c2 /\ l1[1] = l2[1]
    /\ l1[1] = PaletteLength(variant) - 1

-----------------------------------------------------------------------------
(* Properties of the emitted texts, checked under SpecText *)

EntityOf(ch) ==
    CASE ch = "&" -> <<"&", "a", "m", "p", ";">>
      [] ch = "<" -> <<"&", "l", "t", ";">>
      [] ch = ">" -> <<"&", "g", "t", ";">>
      [] ch = "\"" -> <<"&", "q", "u", "o", "t", ";">>
      [] OTHER -> <<ch>>
EntitySet == {EntityOf(ch) : ch \in {"&", "<", ">", "\""}}

\* s with each reserved character replaced, once, by its entity
RECURSIVE Entities(_)
Entities(s) == IF s = <<>> THEN <<>> ELSE EntityOf(Head(s)) \o Entities(Tail(s))

StartsAt(s, i, sub) ==
    i + Len(sub) - 1 <= Len(s) /\ SubSeq(s, i, i + Len(sub) - 1) = sub
Contains(s, sub) == \E i \in 1..Len(s) : StartsAt(s, i, sub)

\* no raw <, > or ", and every & starts an entity
IsEscaped(out) ==
    \A i \in 1..Len(out) :
        /\ out[i] \notin {"<", ">", "\""}
        /\ out[i] = "&" => \E e \in EntitySet : StartsAt(out, i, e)

\* C4: the text emitted inside <title> and inside the summary <text> holds no
\* raw <, > or ", every & in it starts one of &amp; &lt; &gt; &quot;, and it
\* is the built text with each reserved character replaced exactly once.
C4_Escaping ==
    pc = "textDone" =>
        /\ title # <<>> => IsSome(emitted)
        /\ IsSome(emitted) => IsEscaped(emitted[1]) /\ emitted[1] = Entities(title)
        /\ IsSome(summary) =>
               IsEscaped(summary[1]) /\ summary[1] = Entities(summaryText(total))

C4_Witness ==
    /\ pc = "textDone" /\ IsSome(emitted)
    /\ \A ch \in {"&", "<", ">", "\""} : Contains(title, <<ch>>)
    /\ Contains(emitted[1], <<"&", "a", "m", "p", ";", "&", "l", "t", ";">>)

\* the decimal text of a number below 100
TwoDigits(n) ==
    IF n < 10 THEN <<DigitChars[n + 1]>>
    ELSE <<DigitChars[(n \div 10) + 1], DigitChars[(n % 10) + 1]>>

OrdinalSuffix(n) ==
    IF n \in {11, 12, 13} THEN <<"t", "h">>
    ELSE IF n % 10 = 1 THEN <<"s", "t">>
    ELSE IF n % 10 = 2 THEN <<"n", "d">>
    ELSE IF n % 10 = 3 THEN <<"r", "d">>
    ELSE <<"t", "h">>

\* C5: for a day number n in 1..31, ordinal(n) is n followed by th for 11, 12
\* and 13, otherwise st, nd, rd for a last digit 1, 2, 3, and th for the rest;
\* and that is the day the tooltip of an API date ends with.
C5_Ordinal ==
    (pc = "textDone" /\ dd \in 1..MaxDay) =>
        /\ ordinal(dd) = TwoDigits(dd) \o OrdinalSuffix(dd)
        /\ variant = 1 =>
               EndsWith(title, MONTHS[mm] \o <<" ">> \o TwoDigits(dd)
                               \o OrdinalSuffix(dd))

C5_Witness ==
    /\ pc = "textDone" /\ variant = 1 /\ dd = 12
    /\ EndsWith(title, <<" ", "1", "2", "t", "h">>)

\* C6: the noun in a tooltip and in the summary line is "contribution" exactly
\* when the count is 1 and "contributions" otherwise; with no total or total 0
\* the summary is "0 contributions in the last year".
C6_Plural ==
    pc = "textDone" =>
        /\ IsSome(emitted) =>
               /\ Contains(emitted[1], TwoDigits(count)
                     \o <<" ", "c", "o", "n", "t", "r", "i", "b", "u", "t", "i", "o", "n">>)
               /\ Contains(emitted[1],
                     <<" ", "c", "o", "n", "t", "r", "i", "b", "u", "t", "i", "o", "n", "s">>)
                  <=> count # 1
        /\ IsSome(summary) =>
               /\ Contains(summary[1], TwoDigits(OrElse(total, 0))
                     \o <<" ", "c", "o", "n", "t", "r", "i", "b", "u", "t", "i", "o", "n">>)
               /\ Contains(summary[1],
                     <<" ", "c", "o", "n", "t", "r", "i", "b", "u", "t", "i", "o", "n", "s">>)
                  <=> OrElse(total, 0) # 1
               /\ OrElse(total, 0) = 0 =>
                     summary[1] = <<"0", " ", "c", "o", "n", "t", "r", "i", "b", "u", "t",
                                    "i", "o", "n", "s", " ", "i", "n", " ", "t", "h", "e",
                                    " ", "l", "a", "s", "t", " ", "y", "e", "a", "r">>

C6_Witness ==
    /\ pc = "textDone" /\ variant = 1 /\ count = 1 /\ total = None
    /\ IsSome(emitted)
    /\ Contains(emitted[1], <<"1", " ", "c", "o", "n", "t", "r", "i", "b", "u", "t", "i",
                              "o", "n", " ", "o", "n", " ">>)
    /\ IsSome(summary) /\ Contains(summary[1], <<"0", " ", "c", "o", "n", "t", "r", "i",
                                                 "b", "u", "t", "i", "o", "n", "s">>)

-----------------------------------------------------------------------------
(* Properties of renderSVG, checked under SpecRender and SpecGrid *)

\* C1: rendering a week list of length L leaves paddedWeeks with exactly WEEKS
\* entries: for L < WEEKS, WEEKS - L empty weeks followed by the input weeks
\* in order; for L > WEEKS, the last WEEKS input weeks in order; the caller's
\* calendar is not modified, and WEEKS columns of DAYS cells are rendered.
C1_Normalization ==
    [][(pc = "render" /\ pc' = "write") =>
         LET ws == calendar[1].weeks[1]
             L == Len(ws)
         IN  /\ Len(paddedWeeks') = WEEKS
             /\ L < WEEKS =>
                  /\ \A i \in 1..(WEEKS - L) : paddedWeeks'[i] = EmptyWeek
                  /\ \A i \in 1..L : paddedWeeks'[WEEKS - L + i] = ws[i]
             /\ L = WEEKS => paddedWeeks' = ws
             /\ L > WEEKS => \A i \in 1..WEEKS : paddedWeeks'[i] = ws[L - WEEKS + i]
             /\ calendar' = calendar
             /\ Len(svg'[1].rects) = WEEKS * DAYS]_vars

C1_Witness ==
    /\ pc = "write"
    /\ Len(calendar[1].weeks[1]) = MaxInputWeeks
    /\ Len(paddedWeeks) = WEEKS
    /\ paddedWeeks[WEEKS] = FillerWeek(MaxInputWeeks)

SetMax(S) == CHOOSE m \in S : \A k \in S : k <= m

\* C9: the cell of column x, row y shows the last day record of week x whose
\* weekday is y (its colour and its tooltip); with no such record it is
\* filled with PALETTE[0] and has no tooltip; records with a weekday outside
\* 0..6 change no cell and rendering does not fail.
C9_CellResolution ==
    pc = "write" =>
        /\ ~svg[1].threw
        /\ \A x \in 0..(WEEKS - 1) : \A y \in 0..(DAYS - 1) :
             LET days == OrElse(paddedWeeks[x + 1][1].contributionDays, <<>>)
                 idx == {i \in 1..Len(days) : days[i].weekday = y}
                 r == svg[1].rects[x * DAYS + y + 1]
             IN  IF idx = {}
                 THEN r.fill = PaletteOf(variant)[0] /\ r.title = None
                 ELSE LET d == days[SetMax(idx)]
                      IN  /\ r.fill = PaletteOf(variant)[LevelOf(variant, d.contributionCount)]
                          /\ r.title = TitleElement(variant, d.date, d.contributionCount)

\* a week with two records of weekday 0, the first with count 0 and the
\* second with a positive count and a date, has been rendered as the first
\* column, whose rows 1..6 are empty
C9_Witness ==
    /\ pc = "write"
    /\ LET days == paddedWeeks[1][1].contributionDays[1]
       IN  /\ Len(days) = 2
           /\ days[1].weekday = 0 /\ days[2].weekday = 0
           /\ days[1].contributionCount = 0 /\ days[2].contributionCount = MaxCount
           /\ days[2].date # <<>>
    /\ svg[1].rects[1].fill = PaletteOf(variant)[PaletteLength(variant) - 1]
    /\ IsSome(svg[1].rects[1].title)
    /\ svg[1].rects[2].fill = PaletteOf(variant)[0] /\ svg[1].rects[2].title = None

Overlap(a, b) ==
    /\ a.x < b.x + b.width /\ b.x < a.x + a.width
    /\ a.y < b.y + b.height /\ b.y < a.y + a.height

\* C10: WEEKS x DAYS cells are emitted, cell (x, y) at
\* (PAD_X + x*(CELL+GAP), headerOffset + PAD_Y + y*(CELL+GAP)), no two cells
\* overlap, every cell lies inside the image, and the image is 707 wide and
\* 161 (5-colour script) or 109 (4-colour script) high whatever the calendar.
C10_Geometry ==
    pc = "write" =>
        LET rects == svg[1].rects
            headerOffset == IF variant = 1 THEN HEADER_HEIGHT ELSE 0
        IN  /\ Len(rects) = 371
            /\ \A x \in 0..(WEEKS - 1) : \A y \in 0..(DAYS - 1) :
                 LET r == rects[x * DAYS + y + 1]
                 IN  /\ r.x = PAD_X + x * (CELL + GAP)
                     /\ r.y = headerOffset + PAD_Y + y * (CELL + GAP)
                     /\ r.width = CELL /\ r.height = CELL
                     /\ 0 <= r.x /\ r.x + r.width <= svg[1].width
                     /\ 0 <= r.y /\ r.y + r.height <= svg[1].height
            /\ \A j \in 1..Len(rects) : \A k \in (j + 1)..Len(rects) :
                 ~Overlap(rects[j], rects[k])
            /\ svg[1].width = 707
            /\ svg[1].height = IF variant = 1 THEN 161 ELSE 109

C10_Witness ==
    /\ pc = "write" /\ variant = 1
    /\ Len(calendar[1].weeks[1]) = WEEKS - 1
    /\ svg[1].rects[WEEKS * DAYS].x = 686 /\ svg[1].rects[WEEKS * DAYS].y = 112

-----------------------------------------------------------------------------
(* Properties of a run of the script, checked under Spec *)

TokenMissing == ~IsSome(token) \/ token[1] = <<>>

\* C7: with GH_TOKEN absent or empty no fetch is issued, no file is written,
\* the run goes from the token check to the catch handler only, and it ends
\* with a non-zero exit code.
C7_NoTokenNoFetch ==
    TokenMissing =>
        /\ fetchCount = 0 /\ response = None
        /\ fileWrites = <<>>
        /\ pc \in {"start", "catch", "exited"}
        /\ pc = "exited" => exitCode = Some(1)
        /\ pc # "exited" => ENABLED Next

C7_Witness ==
    /\ token = Some(<<>>) /\ pc = "exited" /\ exitCode = Some(1)
    /\ fetchCount = 0 /\ logged = <<"error">>

HasErrors(j) == IsSome(j.errors) /\ Len(j.errors[1]) > 0

\* the object path data.user.contributionsCollection.contributionCalendar.weeks
\* is broken somewhere
LacksPath(j) ==
    \/ ~IsSome(j.data)
    \/ ~IsSome(j.data[1].user)
    \/ ~IsSome(j.data[1].user[1].contributionsCollection)
    \/ ~IsSome(j.data[1].user[1].contributionsCollection[1].contributionCalendar)
    \/ ~IsSome(j.data[1].user[1].contributionsCollection[1].contributionCalendar[1].weeks)

WeeksOf(j) == j.data[1].user[1].contributionsCollection[1].contributionCalendar[1].weeks[1]

\* any field of the documented response shape is missing: the path, a week
\* object, or a week's contributionDays
LacksAnyField(j) ==
    \/ LacksPath(j)
    \/ \E i \in 1..Len(WeeksOf(j)) :
         ~IsSome(WeeksOf(j)[i]) \/ ~IsSome(WeeksOf(j)[i][1].contributionDays)

\* the path is broken, or one of the last WEEKS week entries is null
LacksNeededField(j) ==
    \/ LacksPath(j)
    \/ \E i \in 1..Len(WeeksOf(j)) :
         i > Len(WeeksOf(j)) - WEEKS /\ ~IsSome(WeeksOf(j)[i])

RunFailed ==
    /\ fileWrites = <<>>
    /\ pc \notin {"write", "resolved"}
    /\ pc = "exited" => exitCode = Some(1)

\* one request at most, and each stage only after the one before it
StagesInOrder ==
    /\ fetchCount <= 1
    /\ fetchCount = 1 => ~TokenMissing
    /\ IsSome(response) => fetchCount = 1
    /\ IsSome(svg) =>
         /\ IsSome(response)
         /\ response[1].ok /\ response[1].parses /\ ~HasErrors(response[1].json)
    /\ fileWrites # <<>> =>
         /\ Len(fileWrites) = 1
         /\ IsSome(svg) /\ ~svg[1].threw /\ fileWrites[1] = svg[1]
    /\ exitCode = Some(0) => Len(fileWrites) = 1 /\ logged = <<"wrote">>
    /\ pc = "exited" <=> IsSome(exitCode)

\* C8 as stated: at most one request; a response with a non-success status, a
\* non-empty error list or any expected field missing ends the run with a
\* non-zero exit code and no file; the file is written once and code 0
\* reached only after token check, successful fetch and render, in order.
C8_AnyMissingFieldFails ==
    /\ StagesInOrder
    /\ (IsSome(response) /\ ~response[1].rejected
        /\ (\/ ~response[1].ok
            \/ response[1].parses /\ HasErrors(response[1].json)
            \/ response[1].parses /\ LacksAnyField(response[1].json)))
       => RunFailed

\* C8 as amended: the missing fields that end the run are those of the path
\* data.user.contributionsCollection.contributionCalendar.weeks and a null
\* entry among the last WEEKS weeks.
C8_FailurePropagation ==
    /\ StagesInOrder
    /\ (IsSome(response) /\ ~response[1].rejected
        /\ (\/ ~response[1].ok
            \/ response[1].parses /\ HasErrors(response[1].json)
            \/ response[1].parses /\ LacksNeededField(response[1].json)))
       => RunFailed

C8_Witness ==
    /\ pc = "exited" /\ exitCode = Some(1) /\ fileWrites = <<>> /\ fetchCount = 1
    /\ IsSome(response) /\ response[1].ok /\ response[1].parses
    /\ ~HasErrors(response[1].json)
    /\ ~LacksPath(response[1].json)
    /\ LacksNeededField(response[1].json)
    /\ IsSome(svg) /\ svg[1].threw

=============================================================================
